---- MODULE Spec2Model ----
(***************************************************************************)
(* Model of pythongovernos.py: fetch three SGS series per government       *)
(* period with bounded retry, align them on a monthly calendar, expand the *)
(* quarterly series to months and write one CSV per period.                *)
(*                                                                         *)
(* Strings are sequences of one-character strings, dates (Timestamps) are  *)
(* triples <<year, month, day>>, floats are integers counting hundredths,  *)
(* and the float NaN is the value NaN.  A Series is a sequence of          *)
(* <<date, value>> pairs in index order.                                   *)
(***************************************************************************)
EXTENDS Integers, Sequences, FiniteSets, TLC

VARIABLES
    pc,          \* position of the run
    gov,         \* index in GOVERNOS of the current loop iteration of main
    ini, fim,    \* arguments of the current montar_dataset / fetch_sgs call
    idx,         \* montar_dataset: the monthly calendar
    col,         \* montar_dataset: which series is being fetched (1..3)
    code,        \* fetch_sgs: SGS code
    url,         \* fetch_sgs: the request's query
    i,           \* fetch_sgs: loop counter
    r,           \* fetch_sgs: what the latest requests.get gave
    serie,       \* fetch_sgs: returned Series
    warnings,    \* console: warnings printed by the current fetch_sgs call
    sleeps,      \* number of time.sleep(2) calls of the current fetch_sgs call
    gets,        \* number of requests.get calls of the current fetch_sgs call
    fetched,     \* montar_dataset: the Series each fetch_sgs call returned
    pib_mensal,  \* montar_dataset: result of expand_trimestre_para_meses
    df,          \* montar_dataset: the columns of the DataFrame
    tabela,      \* main: the table montar_dataset returned
    files,       \* file system: content of each CSV written
    saved,       \* console: paths printed by main
    nreq,        \* number of requests.get calls of the whole run
    faults,      \* number of those calls that did not end in a returned Series
    erro         \* the exception that ended the run, or "none"

vars == <<pc, gov, ini, fim, idx, col, code, url, i, r, serie, warnings, sleeps,
          gets, fetched, pib_mensal, df, tabela, files, saved, nreq, faults,
          erro>>

(***************************************************************************)
(* Bounds of the model.                                                    *)
(***************************************************************************)
\* number of leading calendar months present in the partial payloads
PartialLen == 3
\* failed attempts the remote API causes in one whole run of main
MaxFaults == 3
\* the consecutive years from which the date arguments of a lone fetch_sgs
\* call are drawn
FmtYear0 == 2009
FmtYearSpan == 2

(***************************************************************************)
(* Configuration (lines 17-34).                                            *)
(***************************************************************************)
GOVERNOS ==
    << [nome |-> "lula_ii",
        ini  |-> <<"2","0","0","7","-","0","1","-","0","1">>,
        fim  |-> <<"2","0","1","0","-","1","2","-","3","1">>],
       [nome |-> "bolsonaro",
        ini  |-> <<"2","0","1","9","-","0","1","-","0","1">>,
        fim  |-> <<"2","0","2","2","-","1","2","-","3","1">>] >>

SGS == [desemprego |-> 24369, ipca |-> 433, pib_trimes |-> 4380]

RETRY == 3

\* the float NaN (every parsed value is >= 0)
NaN == -1

(***************************************************************************)
(* Strings and dates.                                                      *)
(***************************************************************************)
Digits == <<"0","1","2","3","4","5","6","7","8","9">>

IsDigit(c) == \E n \in 1..10 : Digits[n] = c

DigitVal(c) == (CHOOSE n \in 1..10 : Digits[n] = c) - 1

RECURSIVE Num(_)
Num(s) == IF s = <<>> THEN 0
          ELSE 10 * Num(SubSeq(s, 1, Len(s) - 1)) + DigitVal(s[Len(s)])

\* zero-padded decimal of width w, as strftime's %d, %m and %Y give
Pad(n, w) == [k \in 1..w |-> Digits[((n \div (10 ^ (w - k))) % 10) + 1]]

\* pd.to_datetime("AAAA-MM-DD")
to_datetime(s) ==
    <<Num(SubSeq(s, 1, 4)), Num(SubSeq(s, 6, 7)), Num(SubSeq(s, 9, 10))>>

\* pd.to_datetime("DD/MM/AAAA", dayfirst=True)
to_datetime_dayfirst(s) ==
    <<Num(SubSeq(s, 7, 10)), Num(SubSeq(s, 4, 5)), Num(SubSeq(s, 1, 2))>>

\* Timestamp.strftime("%d/%m/%Y")
strftime_dmY(d) == Pad(d[3], 2) \o <<"/">> \o Pad(d[2], 2) \o <<"/">> \o Pad(d[1], 4)

\* Timestamp.strftime("%Y%m")
strftime_Ym(d) == Pad(d[1], 4) \o Pad(d[2], 2)

DateLT(a, b) ==
    \/ a[1] < b[1]
    \/ a[1] = b[1] /\ a[2] < b[2]
    \/ a[1] = b[1] /\ a[2] = b[2] /\ a[3] < b[3]

DateLE(a, b) == a = b \/ DateLT(a, b)

\* _fmt with the day and the month exchanged
fmt_mdY(d) ==
    LET t == to_datetime(d)
    IN  Pad(t[2], 2) \o <<"/">> \o Pad(t[3], 2) \o <<"/">> \o Pad(t[1], 4)

\* _fmt (lines 37-39)
fmt(d) == strftime_dmY(to_datetime(d))

\* the query of the URL built by fetch_sgs (lines 43-44)
Url(c, a, b) == [serie |-> c, formato |-> "json",
                 dataInicial |-> fmt(a), dataFinal |-> fmt(b)]

(***************************************************************************)
(* Series.                                                                 *)
(***************************************************************************)
\* Series.sort_index(): ascending by date, equal dates keep their order
sort_index(s) ==
    LET n   == Len(s)
        pos == [k \in 1..n |->
                   Cardinality({j \in 1..n : DateLT(s[j][1], s[k][1])})
                   + Cardinality({j \in 1..k : s[j][1] = s[k][1]})]
    IN  IF \A k \in 1..(n - 1) : DateLE(s[k][1], s[k + 1][1])
        THEN s
        ELSE [p \in 1..n |-> s[CHOOSE k \in 1..n : pos[k] = p]]

\* str.replace(",", ".")
str_replace(s) == [k \in 1..Len(s) |-> IF s[k] = "," THEN "." ELSE s[k]]

\* pd.to_numeric(..., errors="coerce") of one string: digits with at most one
\* decimal point parse (kept to the two decimals of the model's floats),
\* anything else is NaN
to_numeric(s) ==
    LET dots == {k \in 1..Len(s) : s[k] = "."}
        ok   == /\ Cardinality(dots) <= 1
                /\ \A k \in 1..Len(s) : k \in dots \/ IsDigit(s[k])
                /\ \E k \in 1..Len(s) : IsDigit(s[k])
        p    == IF dots = {} THEN Len(s) + 1 ELSE CHOOSE k \in dots : TRUE
        int  == SubSeq(s, 1, p - 1)
        dec  == SubSeq(s, p + 1, Len(s))
        frac == IF Len(dec) > 2 THEN SubSeq(dec, 1, 2) ELSE dec
    IN  IF ~ok THEN NaN
        ELSE 100 * Num(int) + Num(frac) * (10 ^ (2 - Len(frac)))

\* lines 52-56: the DataFrame of the payload as a Series sorted by date
ParsePayload(data) ==
    sort_index([k \in 1..Len(data) |->
        <<to_datetime_dayfirst(data[k].data), to_numeric(str_replace(data[k].valor))>>])

\* pd.Series(dtype="float64") (line 61)
EmptySeries == <<>>

\* Index.is_unique
is_unique(s) == \A j, k \in 1..Len(s) : s[j][1] = s[k][1] => j = k

\* a reindex that matches on year and month only
reindex_ym(s, index) ==
    [k \in 1..Len(index) |->
        IF \E j \in 1..Len(s) : s[j][1][1] = index[k][1] /\ s[j][1][2] = index[k][2]
        THEN s[CHOOSE j \in 1..Len(s) :
                   s[j][1][1] = index[k][1] /\ s[j][1][2] = index[k][2]][2]
        ELSE NaN]

\* Series.reindex(index).values for a Series with a unique index: the value at
\* exactly the same date, NaN where the Series has none.  (On a Series whose
\* index holds duplicates reindex raises ValueError.)
reindex(s, index) ==
    [k \in 1..Len(index) |->
        IF \E j \in 1..Len(s) : s[j][1] = index[k]
        THEN s[CHOOSE j \in 1..Len(s) : s[j][1] = index[k]][2]
        ELSE NaN]

(***************************************************************************)
(* calendario_mensal (lines 72-74).                                        *)
(***************************************************************************)
NextMonth(t) == IF t[2] >= 12 THEN <<t[1] + 1, 1, 1>> ELSE <<t[1], t[2] + 1, 1>>

RECURSIVE MonthStarts(_, _)
MonthStarts(t, d1) ==
    IF DateLE(t, d1) THEN <<t>> \o MonthStarts(NextMonth(t), d1) ELSE <<>>

\* pd.date_range(d0, d1, freq="MS"): the month starts t with d0 <= t <= d1
date_range_MS(d0, d1) ==
    MonthStarts(IF d0[3] = 1 THEN d0 ELSE NextMonth(d0), d1)

\* a calendar that leaves out the month of the end date
calendario_sem_fim(a, b) ==
    LET c == date_range_MS(to_datetime(a), to_datetime(b))
    IN  SubSeq(c, 1, Len(c) - 1)

calendario_mensal(a, b) == date_range_MS(to_datetime(a), to_datetime(b))

(***************************************************************************)
(* expand_trimestre_para_meses (lines 63-70).                              *)
(***************************************************************************)
QuarterStarts == {1, 4, 7, 10}

\* the lookup {1: 1, 4: 4, 7: 7, 10: 10}[d.month] raises KeyError
expand_raises(s_q) == \E k \in 1..Len(s_q) : s_q[k][1][2] \notin QuarterStarts

\* the assignments rep[d.replace(month=m, day=1)] = v of lines 66-69 in the
\* order the two loops make them, n months for each point of s_q
Writes(s_q, n) ==
    [t \in 1..(Len(s_q) * n) |->
        LET p == s_q[((t - 1) \div n) + 1]
        IN  << <<p[1][1], p[1][2] + ((t - 1) % n), 1>>, p[2] >>]

\* the dict those assignments leave, as its items: a key stands where it was
\* first assigned and holds the value it was last assigned
DictItems(w) ==
    LET IsFirst(t) == \A u \in 1..(t - 1) : w[u][1] # w[t][1]
        Last(t)    == CHOOSE u \in t..Len(w) :
                          /\ w[u][1] = w[t][1]
                          /\ \A x \in (u + 1)..Len(w) : w[x][1] # w[t][1]
        ts         == SelectSeq([t \in 1..Len(w) |-> t], IsFirst)
    IN  [n \in 1..Len(ts) |-> <<w[ts[n]][1], w[Last(ts[n])][2]>>]

\* an expansion that fills only two months of the quarter
expand_dois_meses(s_q) == sort_index(DictItems(Writes(s_q, 2)))

expand_trimestre_para_meses(s_q) == sort_index(DictItems(Writes(s_q, 3)))

(***************************************************************************)
(* The remote API: what requests.get(url) and r.json() can give            *)
(* (lines 48-51).  The payloads are built for the range the URL asks for.  *)
(***************************************************************************)
Rec(d, v) == [data |-> strftime_dmY(d), valor |-> v]

ValorMensal(k) == Pad(k, 2) \o <<",", "5">>

ValorTrimestral(k) == Pad(100 + k, 3) \o <<",", "0">>

ApiCalendar(u) ==
    date_range_MS(to_datetime_dayfirst(u.dataInicial), to_datetime_dayfirst(u.dataFinal))

ApiYear(u) == to_datetime_dayfirst(u.dataInicial)[1]

Min(a, b) == IF a <= b THEN a ELSE b

\* every month of the range
PayloadCompleto(u) ==
    LET cal == ApiCalendar(u)
    IN  [k \in 1..Len(cal) |-> Rec(cal[k], ValorMensal(k))]

\* the first months of the range only, latest first, the second unparseable
\* and one with a decimal point; a mid-month date and a date before the range
PayloadParcial(u) ==
    LET cal == ApiCalendar(u)
        n   == Min(PartialLen, Len(cal))
    IN  [k \in 1..n |->
            Rec(cal[n + 1 - k],
                IF n + 1 - k = 2 THEN <<"n", "/", "d">>
                ELSE IF n + 1 - k = 1 THEN <<"7", ".", "9">>
                ELSE ValorMensal(n + 1 - k))]
        \o << Rec(<<ApiYear(u), 5, 15>>, <<"1", ",", "0">>),
              Rec(<<ApiYear(u) - 1, 12, 1>>, <<"2", ",", "0">>) >>

\* the same date twice, with the same value: the order sort_index leaves
\* equal dates in cannot show
PayloadDuplicado(u) ==
    << Rec(<<ApiYear(u), 3, 1>>, <<"5", ",", "0">>),
       Rec(<<ApiYear(u), 3, 1>>, <<"5", ",", "0">>) >>

\* every quarter of the range
PayloadTrimestral(u) ==
    LET cal == SelectSeq(ApiCalendar(u), LAMBDA t : t[2] \in QuarterStarts)
    IN  [k \in 1..Len(cal) |-> Rec(cal[k], ValorTrimestral(k))]

\* two quarters of the range, the second dated mid-month, and a quarter before it
PayloadTrimParcial(u) ==
    << Rec(<<ApiYear(u), 4, 15>>, <<"1", "0", "1", ",", "5">>),
       Rec(<<ApiYear(u), 1, 1>>, <<"1", "0", "0", ",", "0">>),
       Rec(<<ApiYear(u) - 1, 10, 1>>, <<"9", "9", ",", "0">>) >>

\* a point dated in the second month of a quarter
PayloadForaTrimestre(u) ==
    << Rec(<<ApiYear(u), 1, 1>>, <<"1", "0", "0", ",", "0">>),
       Rec(<<ApiYear(u), 2, 1>>, <<"1", "0", "0", ",", "0">>) >>

\* two points dated in the same first month of a quarter
PayloadMesmoMes(u) ==
    << Rec(<<ApiYear(u), 7, 1>>, <<"1", "0", "0", ",", "0">>),
       Rec(<<ApiYear(u), 7, 15>>, <<"2", "0", "0", ",", "0">>) >>

Payloads(u) ==
    IF u.serie = SGS.pib_trimes
    THEN {PayloadTrimestral(u), PayloadTrimParcial(u), PayloadForaTrimestre(u),
          PayloadMesmoMes(u)}
    ELSE {PayloadCompleto(u), PayloadParcial(u), PayloadDuplicado(u)}

\* a JSON body that is no list of {data, valor} records
Malformed == << [erro |-> "x"] >>

\* exc: requests.get raises (timeout, connection); http: a response arrived
Responses(u) ==
    {[kind |-> "exc", status |-> 0, body |-> <<>>],
     [kind |-> "http", status |-> 500, body |-> <<>>]}
    \cup {[kind |-> "http", status |-> 200, body |-> b] :
              b \in {<<>>, Malformed} \cup Payloads(u)}

(***************************************************************************)
(* fetch_sgs (lines 41-61).                                                *)
(***************************************************************************)
Codes == <<SGS.desemprego, SGS.ipca, SGS.pib_trimes>>

ColName == <<"desemprego", "ipca", "pib_vol">>

\* lines 52-55 run without raising
Usable(body) ==
    \A k \in 1..Len(body) : {"data", "valor"} \subseteq DOMAIN body[k]

\* a success test without the "if data:" of line 51
Success_sem_if_data(resp) ==
    /\ resp.kind = "http"
    /\ resp.status = 200
    /\ Usable(resp.body)

\* the attempt reaches the return of line 56
Success(resp) ==
    /\ resp.kind = "http"
    /\ resp.status = 200
    /\ resp.body # <<>>
    /\ Usable(resp.body)

\* warnings that leave out the attempts ended by an exception
Warn_status_only(c, k, resp) ==
    IF resp.kind = "http" /\ (resp.status # 200 \/ resp.body = <<>>)
    THEN << [code |-> c, i |-> k, de |-> RETRY, kind |-> "status"] >>
    ELSE << >>

\* what a failed attempt prints, as the code, the attempt number i/RETRY and
\* the kind of the message: line 57 ("status=...") after a response that was
\* not returned, line 59 ("erro ...") after an exception of requests.get,
\* r.json or the parsing
Warn(c, k, resp) ==
    IF resp.kind = "http" /\ (resp.status # 200 \/ resp.body = <<>>)
    THEN << [code |-> c, i |-> k, de |-> RETRY, kind |-> "status"] >>
    ELSE << [code |-> c, i |-> k, de |-> RETRY, kind |-> "erro"] >>

\* a loop that runs once more
LoopGoesOn_le(k) == k <= RETRY

\* for i in range(1, RETRY + 1): another iteration follows iteration k
LoopGoesOn(k) == k < RETRY

\* r before the first requests.get
NoResponse == [kind |-> "none", status |-> 0, body |-> <<>>]

\* lines 43-44 and the entry of the loop
FetchCall ==
    /\ pc = "call"
    /\ code' = Codes[col]
    /\ url' = Url(Codes[col], ini, fim)
    /\ i' = 1
    /\ r' = NoResponse
    /\ warnings' = <<>>
    /\ sleeps' = 0
    /\ gets' = 0
    /\ serie' = EmptySeries
    /\ pc' = "get"
    /\ UNCHANGED <<gov, ini, fim, idx, col, fetched, pib_mensal, df, tabela,
                   files, saved, nreq, faults, erro>>

\* lines 47-59: one iteration up to the return or the warning
Attempt(resp) ==
    /\ pc = "get"
    /\ r' = resp
    /\ gets' = gets + 1
    /\ nreq' = nreq + 1
    /\ IF Success(resp)
       THEN /\ serie' = ParsePayload(resp.body)
            /\ pc' = "returned"
            /\ UNCHANGED <<warnings, faults>>
       ELSE /\ warnings' = warnings \o Warn(code, i, resp)
            /\ faults' = faults + 1
            /\ pc' = "sleep"
            /\ UNCHANGED serie
    /\ UNCHANGED <<gov, ini, fim, idx, col, code, url, i, sleeps, fetched,
                   pib_mensal, df, tabela, files, saved, erro>>

\* a loop that raises once the attempts are used up
Sleep_raise ==
    /\ pc = "sleep"
    /\ sleeps' = sleeps + 1
    /\ IF LoopGoesOn(i)
       THEN /\ i' = i + 1
            /\ pc' = "get"
            /\ UNCHANGED erro
       ELSE /\ erro' = "RuntimeError"
            /\ pc' = "aborted"
            /\ UNCHANGED i
    /\ UNCHANGED <<gov, ini, fim, idx, col, code, url, r, serie, warnings, gets,
                   fetched, pib_mensal, df, tabela, files, saved, nreq, faults>>

\* line 60, then the next iteration or line 61
Sleep ==
    /\ pc = "sleep"
    /\ sleeps' = sleeps + 1
    /\ IF LoopGoesOn(i)
       THEN /\ i' = i + 1
            /\ pc' = "get"
            /\ UNCHANGED serie
       ELSE /\ serie' = EmptySeries
            /\ pc' = "returned"
            /\ UNCHANGED i
    /\ UNCHANGED <<gov, ini, fim, idx, col, code, url, r, warnings, gets, fetched,
                   pib_mensal, df, tabela, files, saved, nreq, faults, erro>>

(***************************************************************************)
(* montar_dataset (lines 76-90) and main (lines 93-98).                    *)
(***************************************************************************)
NoColumns == [date |-> <<>>, desemprego |-> <<>>, ipca |-> <<>>, pib_vol |-> <<>>]

NoSeries == <<EmptySeries, EmptySeries, EmptySeries>>

\* line 94 (next item of GOVERNOS), line 95 (the call), lines 77-78
MontarStart ==
    /\ pc = "main"
    /\ ini' = GOVERNOS[gov].ini
    /\ fim' = GOVERNOS[gov].fim
    /\ idx' = calendario_mensal(GOVERNOS[gov].ini, GOVERNOS[gov].fim)
    /\ df' = [NoColumns EXCEPT !.date = idx']
    /\ col' = 1
    /\ fetched' = NoSeries
    /\ pib_mensal' = EmptySeries
    /\ tabela' = <<>>
    /\ pc' = "call"
    /\ UNCHANGED <<gov, code, url, i, r, serie, warnings, sleeps, gets, files, saved,
                   nreq, faults, erro>>

\* line 83 for the two monthly series, line 87 for the quarterly one: the
\* returned Series is reindexed (expanded first) and stored as a column; an
\* exception of reindex or of expand_trimestre_para_meses is caught nowhere
StoreColumn ==
    /\ pc = "returned"
    /\ fetched' = [fetched EXCEPT ![col] = serie]
    /\ IF col < 3
       THEN IF is_unique(serie)
            THEN /\ df' = [df EXCEPT ![ColName[col]] = reindex(serie, idx)]
                 /\ col' = col + 1
                 /\ pc' = "call"
                 /\ UNCHANGED <<pib_mensal, erro>>
            ELSE /\ erro' = "ValueError"
                 /\ pc' = "aborted"
                 /\ UNCHANGED <<df, col, pib_mensal>>
       ELSE IF ~expand_raises(serie)
            THEN /\ pib_mensal' = expand_trimestre_para_meses(serie)
                 /\ df' = [df EXCEPT !.pib_vol = reindex(pib_mensal', idx)]
                 /\ pc' = "montado"
                 /\ UNCHANGED <<col, erro>>
            ELSE /\ erro' = "KeyError"
                 /\ pc' = "aborted"
                 /\ UNCHANGED <<df, col, pib_mensal>>
    /\ UNCHANGED <<gov, ini, fim, idx, code, url, i, r, serie, warnings, sleeps, gets,
                   tabela, files, saved, nreq, faults>>

\* lines 89-90: the period label and the four columns
MontarReturn ==
    /\ pc = "montado"
    /\ tabela' = [k \in 1..Len(df.date) |->
                     [period     |-> strftime_Ym(df.date[k]),
                      desemprego |-> df.desemprego[k],
                      ipca       |-> df.ipca[k],
                      pib_vol    |-> df.pib_vol[k]]]
    /\ pc' = "salvar"
    /\ UNCHANGED <<gov, ini, fim, idx, col, code, url, i, r, serie, warnings, sleeps,
                   gets, fetched, pib_mensal, df, files, saved, nreq, faults, erro>>

\* decimal digits of a natural number
RECURSIVE Dec(_)
Dec(n) == IF n < 10 THEN <<Digits[n + 1]>> ELSE Dec(n \div 10) \o <<Digits[(n % 10) + 1]>>

\* a float as to_csv writes it; NaN is the empty cell
Cell(v) ==
    IF v = NaN THEN <<>>
    ELSE Dec(v \div 100) \o <<".">> \o
         (IF v % 10 = 0 THEN <<Digits[((v \div 10) % 10) + 1]>> ELSE Pad(v % 100, 2))

\* DataFrame.to_csv(arq, index=False)
to_csv(t) ==
    [header |-> <<"period", "desemprego", "ipca", "pib_vol">>,
     rows   |-> [k \in 1..Len(t) |->
                    <<t[k].period, Cell(t[k].desemprego), Cell(t[k].ipca),
                      Cell(t[k].pib_vol)>>]]

\* f"{gov}_{ini[:4]}_{fim[:4]}.csv" (line 96)
Arq(g, a, b) == [gov |-> g, de |-> SubSeq(a, 1, 4), ate |-> SubSeq(b, 1, 4)]

NoFile == [header |-> <<>>, rows |-> <<>>]

\* lines 96-98, then the next iteration of line 94 or the end of main
Salvar ==
    /\ pc = "salvar"
    /\ files' = [files EXCEPT ![gov] = to_csv(tabela)]
    /\ saved' = Append(saved, Arq(GOVERNOS[gov].nome, ini, fim))
    /\ IF gov < Len(GOVERNOS)
       THEN gov' = gov + 1 /\ pc' = "main"
       ELSE gov' = gov /\ pc' = "done"
    /\ UNCHANGED <<ini, fim, idx, col, code, url, i, r, serie, warnings, sleeps, gets,
                   fetched, pib_mensal, df, tabela, nreq, faults, erro>>

Init ==
    /\ pc = "main"
    /\ gov = 1
    /\ ini = <<>>
    /\ fim = <<>>
    /\ idx = <<>>
    /\ col = 1
    /\ code = 0
    /\ url = Url(0, GOVERNOS[1].ini, GOVERNOS[1].ini)
    /\ i = 1
    /\ r = NoResponse
    /\ serie = EmptySeries
    /\ warnings = <<>>
    /\ sleeps = 0
    /\ gets = 0
    /\ fetched = NoSeries
    /\ pib_mensal = EmptySeries
    /\ df = NoColumns
    /\ tabela = <<>>
    /\ files = [g \in 1..Len(GOVERNOS) |-> NoFile]
    /\ saved = <<>>
    /\ nreq = 0
    /\ faults = 0
    /\ erro = "none"

\* the whole run of main, the remote API failing at most MaxFaults times
Next ==
    \/ MontarStart
    \/ FetchCall
    \/ \E resp \in Responses(url) :
          /\ Success(resp) \/ faults < MaxFaults
          /\ Attempt(resp)
    \/ Sleep
    \/ StoreColumn
    \/ MontarReturn
    \/ Salvar

Spec == Init /\ [][Next]_vars

(***************************************************************************)
(* One call of montar_dataset, for either period, whatever the remote API  *)
(* does.  The call for the second period starts where a run of main is     *)
(* after it saved the first period, each of whose series arrived complete  *)
(* at the first attempt.                                                   *)
(***************************************************************************)
LulaUrl(c) == Url(c, GOVERNOS[1].ini, GOVERNOS[1].fim)

LulaIdx == calendario_mensal(GOVERNOS[1].ini, GOVERNOS[1].fim)

LulaSeries ==
    << ParsePayload(PayloadCompleto(LulaUrl(SGS.desemprego))),
       ParsePayload(PayloadCompleto(LulaUrl(SGS.ipca))),
       ParsePayload(PayloadTrimestral(LulaUrl(SGS.pib_trimes))) >>

LulaDf ==
    [date       |-> LulaIdx,
     desemprego |-> reindex(LulaSeries[1], LulaIdx),
     ipca       |-> reindex(LulaSeries[2], LulaIdx),
     pib_vol    |-> reindex(expand_trimestre_para_meses(LulaSeries[3]), LulaIdx)]

LulaTabela ==
    [k \in 1..Len(LulaIdx) |->
        [period     |-> strftime_Ym(LulaIdx[k]),
         desemprego |-> LulaDf.desemprego[k],
         ipca       |-> LulaDf.ipca[k],
         pib_vol    |-> LulaDf.pib_vol[k]]]

AfterLula ==
    /\ pc = "main"
    /\ gov = 2
    /\ ini = GOVERNOS[1].ini
    /\ fim = GOVERNOS[1].fim
    /\ idx = LulaIdx
    /\ col = 3
    /\ code = SGS.pib_trimes
    /\ url = LulaUrl(SGS.pib_trimes)
    /\ i = 1
    /\ r = [kind |-> "http", status |-> 200,
            body |-> PayloadTrimestral(LulaUrl(SGS.pib_trimes))]
    /\ serie = LulaSeries[3]
    /\ warnings = <<>>
    /\ sleeps = 0
    /\ gets = 1
    /\ fetched = LulaSeries
    /\ pib_mensal = expand_trimestre_para_meses(LulaSeries[3])
    /\ df = LulaDf
    /\ tabela = LulaTabela
    /\ files = [g \in 1..Len(GOVERNOS) |-> IF g = 1 THEN to_csv(LulaTabela) ELSE NoFile]
    /\ saved = <<Arq(GOVERNOS[1].nome, GOVERNOS[1].ini, GOVERNOS[1].fim)>>
    /\ nreq = 3
    /\ faults = 0
    /\ erro = "none"

InitMontar == Init \/ AfterLula

NextMontar ==
    \/ MontarStart
    \/ FetchCall
    \/ \E resp \in Responses(url) : Attempt(resp)
    \/ Sleep
    \/ StoreColumn
    \/ MontarReturn

SpecMontar == InitMontar /\ [][NextMontar]_vars

(***************************************************************************)
(* One call of fetch_sgs with any SGS code and any two dates of FmtDates.  *)
(***************************************************************************)
FmtMonthDays == {<<1, 1>>, <<1, 9>>, <<2, 28>>, <<10, 1>>, <<12, 31>>}

FmtDates ==
    {Pad(y, 4) \o <<"-">> \o Pad(md[1], 2) \o <<"-">> \o Pad(md[2], 2) :
        y \in FmtYear0..(FmtYear0 + FmtYearSpan - 1), md \in FmtMonthDays}

InitFetch ==
    /\ pc = "call"
    /\ gov = 1
    /\ ini \in FmtDates
    /\ fim \in FmtDates
    /\ idx = <<>>
    /\ col \in 1..3
    /\ code = 0
    /\ url = Url(0, GOVERNOS[1].ini, GOVERNOS[1].ini)
    /\ i = 1
    /\ r = NoResponse
    /\ serie = EmptySeries
    /\ warnings = <<>>
    /\ sleeps = 0
    /\ gets = 0
    /\ fetched = NoSeries
    /\ pib_mensal = EmptySeries
    /\ df = NoColumns
    /\ tabela = <<>>
    /\ files = [g \in 1..Len(GOVERNOS) |-> NoFile]
    /\ saved = <<>>
    /\ nreq = 0
    /\ faults = 0
    /\ erro = "none"

NextFetch ==
    \/ FetchCall
    \/ \E resp \in Responses(url) : Attempt(resp)
    \/ Sleep

SpecFetch == InitFetch /\ [][NextFetch]_vars


(***************************************************************************)
(* Properties.                                                             *)
(***************************************************************************)
QuarterPoint(p) == p[1][2] \in QuarterStarts

\* the table montar_dataset returned is in tabela
Returned == pc = "salvar"

\* the current fetch_sgs call is over because its attempts were used up
Exhausted == pc = "returned" /\ sleeps = gets

\* the current fetch_sgs call is over by the return of line 56
ReturnedSeries == pc = "returned" /\ sleeps < gets

InFetch == pc \in {"get", "sleep", "returned"}

\* the period label of the k-th month counted from month m0 of year y0
LabelFrom(y0, m0, k) ==
    Pad(y0 + ((m0 + k - 2) \div 12), 4) \o Pad(((m0 + k - 2) % 12) + 1, 2)

\* C1: for each configured period the table returned by montar_dataset has
\* exactly one row per calendar month from start to end inclusive (48 rows),
\* in calendar order, whatever the three fetches returned.
C1_RowPerMonth ==
    Returned =>
        LET d0 == to_datetime(GOVERNOS[gov].ini)
            d1 == to_datetime(GOVERNOS[gov].fim)
        IN  /\ Len(tabela) = (d1[1] - d0[1]) * 12 + (d1[2] - d0[2]) + 1
            /\ Len(tabela) = 48
            /\ \A k \in 1..Len(tabela) : tabela[k].period = LabelFrom(d0[1], d0[2], k)
            /\ tabela[1].period = (IF gov = 1 THEN <<"2","0","0","7","0","1">>
                                              ELSE <<"2","0","1","9","0","1">>)
            /\ tabela[48].period = (IF gov = 1 THEN <<"2","0","1","0","1","2">>
                                               ELSE <<"2","0","2","2","1","2">>)

\* the second period's table with one series empty after its retries were
\* used up, one partial and one complete
C1_Witness ==
    /\ Returned
    /\ gov = 2
    /\ fetched[1] = <<>>
    /\ Len(fetched[2]) > 0
    /\ Len(fetched[2]) < 48
    /\ Len(fetched[3]) = 16
    /\ Len(tabela) = 48

Column(c) == [k \in 1..Len(tabela) |->
                 IF c = 1 THEN tabela[k].desemprego
                 ELSE IF c = 2 THEN tabela[k].ipca ELSE tabela[k].pib_vol]

\* C2: in the returned table, for every calendar date D and each monthly
\* column, row D holds the value of the fetched point dated exactly D if the
\* fetched series has one and null otherwise; every calendar month has its
\* row, and a point dated off the calendar shows in no row.
C2_ExactDateOrNull ==
    Returned =>
        /\ Len(tabela) = Len(idx)
        /\ \A k \in 1..Len(idx) : tabela[k].period = strftime_Ym(idx[k])
        /\ \A c \in 1..2 :
            /\ \A k \in 1..Len(idx) :
                 LET at == {j \in 1..Len(fetched[c]) : fetched[c][j][1] = idx[k]}
                 IN  IF at = {} THEN Column(c)[k] = NaN
                     ELSE \A j \in at : Column(c)[k] = fetched[c][j][2]
            /\ Cardinality({k \in 1..Len(idx) : Column(c)[k] # NaN})
                 = Cardinality({j \in 1..Len(fetched[c]) :
                       /\ fetched[c][j][2] # NaN
                       /\ \E k \in 1..Len(idx) : idx[k] = fetched[c][j][1]})

\* a table whose ipca series has a mid-month point, a point before the range,
\* a point on the calendar, and months without any point
C2_Witness ==
    /\ Returned
    /\ \E j \in 1..Len(fetched[2]) : fetched[2][j][1][3] = 15
    /\ \E j \in 1..Len(fetched[2]) : DateLT(fetched[2][j][1], idx[1])
    /\ \E j \in 1..Len(fetched[2]) :
          fetched[2][j][1] = idx[1] /\ tabela[1].ipca = fetched[2][j][2]
    /\ tabela[1].ipca # NaN
    /\ tabela[5].ipca = NaN
    /\ tabela[48].ipca = NaN

\* C4: one fetch_sgs call never makes more than 3 requests, and it gives up
\* (returns without a successful attempt) only after exactly 3.
C4_RetryBound ==
    /\ gets <= 3
    /\ i <= 3
    /\ Exhausted => gets = 3 /\ Len(warnings) = 3

C4_Witness == Exhausted /\ gets = 3 /\ r.kind = "exc" /\ warnings[2].kind = "status"

\* C5: a fetch_sgs call whose attempts are used up returns the empty series and
\* no exception; montar_dataset goes on, no exception comes of an empty series,
\* and in the table the column of an empty series is null in every row while
\* the columns of the other series hold their values.
C5_EmptySeriesTolerated ==
    /\ Exhausted => serie = EmptySeries /\ erro = "none"
    /\ erro # "none" => serie # EmptySeries
    /\ Returned =>
        \A c \in 1..3 :
            IF fetched[c] = EmptySeries
            THEN \A k \in 1..Len(tabela) : Column(c)[k] = NaN
            ELSE \A j \in 1..Len(fetched[c]) : \A k \in 1..Len(idx) :
                    LET d == fetched[c][j][1]
                        only == \A x \in 1..Len(fetched[c]) :
                                   (fetched[c][x][1][1] = d[1] /\ fetched[c][x][1][2] = d[2])
                                   => x = j
                    IN  \/ c < 3 /\ d = idx[k] /\ Column(c)[k] = fetched[c][j][2]
                        \/ c < 3 /\ d # idx[k]
                        \/ c = 3 /\ ~only
                        \/ c = 3 /\ only /\ d[1] = idx[k][1] /\ idx[k][2] \in d[2]..(d[2] + 2)
                             /\ Column(c)[k] = fetched[c][j][2]
                        \/ c = 3 /\ only /\ ~(d[1] = idx[k][1] /\ idx[k][2] \in d[2]..(d[2] + 2))

\* desemprego failed three times; ipca and pib_trimes arrived and show
C5_Witness ==
    /\ Returned
    /\ fetched[1] = EmptySeries
    /\ \A k \in 1..48 : tabela[k].desemprego = NaN
    /\ Len(fetched[2]) = 48
    /\ \A k \in 1..48 : tabela[k].ipca = 100 * k + 50
    /\ Len(fetched[3]) = 16
    /\ \A k \in 1..48 : tabela[k].pib_vol = 100 * (100 + ((k + 2) \div 3))

\* the points expand_trimestre_para_meses must give for point p
Months(p) == {<< <<p[1][1], p[1][2] + m, 1>>, p[2] >> : m \in 0..2}

Points(s) == {s[k] : k \in 1..Len(s)}

\* p is the only point of s dated in its month of its year
OnlyInMonth(s, p) ==
    \A k \in 1..Len(s) : (s[k][1][1] = p[1][1] /\ s[k][1][2] = p[1][2]) => s[k] = p

Expanded == pc \in {"montado", "salvar"}

\* C6 as claimed: every point of the quarterly series dated in month M gives
\* the three points of months M, M+1, M+2 with its value.
C6_EveryPointExpanded ==
    Expanded => \A p \in Points(fetched[3]) : Months(p) \subseteq Points(pib_mensal)

\* C6 amended: every point (date in month M of {1,4,7,10}, value v) that is the
\* only point of the quarterly series dated in that month of that year gives
\* exactly the three points at the first day of months M, M+1, M+2 with value
\* v; the result holds nothing but months M, M+1, M+2 of the points of the
\* series, in ascending date order, and the rows of those months show v.
C6_QuarterlyExpansion ==
    /\ Expanded =>
        /\ \A p \in Points(fetched[3]) :
             /\ QuarterPoint(p)
             /\ OnlyInMonth(fetched[3], p) =>
                  /\ Months(p) \subseteq Points(pib_mensal)
                  /\ \A q \in Points(pib_mensal) :
                       (q[1][1] = p[1][1] /\ q[1][2] \in p[1][2]..(p[1][2] + 2))
                       => q \in Months(p)
        /\ \A q \in Points(pib_mensal) :
             \E p \in Points(fetched[3]) :
                 q[1] \in {<<p[1][1], p[1][2] + m, 1>> : m \in 0..2}
        /\ Len(pib_mensal) =
             3 * Cardinality({<<p[1][1], p[1][2]>> : p \in Points(fetched[3])})
        /\ \A k \in 1..(Len(pib_mensal) - 1) :
             DateLT(pib_mensal[k][1], pib_mensal[k + 1][1])
    /\ Returned =>
        \A p \in Points(fetched[3]) :
            OnlyInMonth(fetched[3], p) =>
                \A k \in 1..Len(idx) :
                    (idx[k][1] = p[1][1] /\ idx[k][2] \in p[1][2]..(p[1][2] + 2))
                    => tabela[k].pib_vol = p[2]

\* value 100.0 at 2007-01-01 shows in rows 200701, 200702 and 200703, and a
\* point dated mid-month is expanded too
C6_Witness ==
    /\ Returned
    /\ gov = 1
    /\ << <<2007, 1, 1>>, 10000 >> \in Points(fetched[3])
    /\ << <<2007, 4, 15>>, 10150 >> \in Points(fetched[3])
    /\ tabela[1].period = <<"2","0","0","7","0","1">>
    /\ tabela[3].period = <<"2","0","0","7","0","3">>
    /\ \A k \in 1..3 : tabela[k].pib_vol = 10000
    /\ \A k \in 4..6 : tabela[k].pib_vol = 10150
    /\ tabela[7].pib_vol = NaN

\* C7: every attempt of a fetch_sgs call that does not return prints exactly
\* one warning naming the series code and the attempt number i/3, and the
\* attempt that returns prints none: the warnings of the call are one per
\* failed attempt, the k-th naming attempt k.
C7_WarningPerFailure ==
    InFetch =>
        /\ Len(warnings) = (IF pc = "sleep" THEN sleeps + 1 ELSE sleeps)
        /\ pc = "get" => Len(warnings) = gets
        /\ pc = "sleep" => Len(warnings) = gets
        /\ ReturnedSeries => Len(warnings) = gets - 1
        /\ Exhausted => Len(warnings) = gets
        /\ \A k \in 1..Len(warnings) :
             /\ warnings[k].code = Codes[col]
             /\ warnings[k].i = k
             /\ warnings[k].de = 3

\* an exception, then a refused request, then a returned series
C7_Witness ==
    /\ ReturnedSeries
    /\ gets = 3
    /\ Len(warnings) = 2
    /\ warnings[1].kind = "erro"
    /\ warnings[2].kind = "status"
    /\ warnings[2].i = 2
    /\ warnings[2].code = 4380

\* the characters of "AAAA-MM-DD" put as "DD/MM/AAAA"
DayMonthYear(d) == <<d[9], d[10], "/", d[6], d[7], "/", d[1], d[2], d[3], d[4]>>

\* C8: _fmt turns "AAAA-MM-DD" into "DD/MM/AAAA" with the same zero-padded day,
\* month and year ("2019-01-01" gives "01/01/2019"), and the URL fetch_sgs
\* requests carries the start and the end date so converted as dataInicial
\* and dataFinal.
C8_DateFormat ==
    /\ fmt(<<"2","0","1","9","-","0","1","-","0","1">>)
         = <<"0","1","/","0","1","/","2","0","1","9">>
    /\ InFetch =>
        /\ url.dataInicial = DayMonthYear(ini)
        /\ url.dataFinal = DayMonthYear(fim)
        /\ url.serie = Codes[col]

C8_Witness ==
    /\ pc = "returned"
    /\ ini = <<"2","0","0","9","-","0","2","-","2","8">>
    /\ fim = <<"2","0","1","0","-","1","2","-","3","1">>
    /\ url.dataInicial = <<"2","8","/","0","2","/","2","0","0","9">>
    /\ url.dataFinal = <<"3","1","/","1","2","/","2","0","1","0">>

\* the response is status 200 with a non-empty payload of {data, valor} records
Good(resp) ==
    /\ resp.kind = "http"
    /\ resp.status = 200
    /\ Len(resp.body) > 0
    /\ \A k \in 1..Len(resp.body) : DOMAIN resp.body[k] = {"data", "valor"}

Ascending(s) == \A k \in 1..(Len(s) - 1) : DateLE(s[k][1], s[k + 1][1])

\* C9: within one fetch_sgs call an attempt is made only after failed ones; the
\* first status-200 response with a non-empty parseable payload ends the call,
\* which returns that payload's points sorted by date with no later attempt
\* and no delay; a status-200 response with an empty payload is a failed
\* attempt: warned, delayed and retried within the bound of 3.
C9_FirstSuccessEnds ==
    InFetch /\ gets > 0 =>
        /\ Good(r) <=> ReturnedSeries
        /\ ReturnedSeries =>
             /\ sleeps = gets - 1
             /\ i = gets
             /\ Len(serie) = Len(r.body)
             /\ Ascending(serie)
             /\ \A k \in 1..Len(r.body) :
                  << to_datetime_dayfirst(r.body[k].data),
                     to_numeric(str_replace(r.body[k].valor)) >> \in Points(serie)
        /\ pc = "get" => sleeps = gets /\ i = gets + 1 /\ Len(warnings) = gets
        /\ (r.kind = "http" /\ r.status = 200 /\ r.body = <<>>) =>
             /\ ~ReturnedSeries
             /\ Len(warnings) = gets
             /\ warnings[gets].kind = "status"
             /\ pc = "sleep" \/ sleeps = gets
             /\ pc = "get" => gets < 3
             /\ pc = "returned" => gets = 3 /\ serie = EmptySeries

\* an empty status-200 payload at the first attempt, then an unsorted payload
\* that is returned sorted
C9_Witness ==
    /\ ReturnedSeries
    /\ gets = 2
    /\ warnings = << [code |-> 433, i |-> 1, de |-> 3, kind |-> "status"] >>
    /\ ~Ascending([k \in 1..Len(r.body) |-> <<to_datetime_dayfirst(r.body[k].data), 0>>])
    /\ Ascending(serie)

BothSaved ==
    /\ Len(saved) = 2
    /\ saved[1].gov = "lula_ii"
    /\ saved[2].gov = "bolsonaro"
    /\ \A g \in 1..2 : Len(files[g].rows) = 48

\* C3: a run of main never aborts, whatever the remote API answers: it ends
\* with both periods assembled and both files written.
C3_NeverAborts ==
    /\ pc # "aborted"
    /\ erro = "none"
    /\ pc = "done" => BothSaved

Ended == pc \in {"done", "aborted"}

\* C10: a run of main ends after the second file is written, having made three
\* fetches per period, at least 6 and at most 18 requests in all.
C10_RunEnds ==
    Ended =>
        /\ pc = "done"
        /\ BothSaved
        /\ nreq >= 6
        /\ nreq <= 18

====
